---- MODULE Spec2Model ----
(***************************************************************************)
(* A model of the adaptive rate limiter of limiter.go and of the EWMA of   *)
(* ewma.go.                                                                *)
(*                                                                         *)
(* Processes: the goroutines that call the public API (Callers), the       *)
(* window reset goroutine ("reset", startResetLoop) and the controller     *)
(* goroutine ("adapt", startAdaptiveLoop).  Every statement that touches   *)
(* shared state is one step; l.mu is modelled by the variable mu, the      *)
(* channel stopCh by stopCh and the two ticker channels (capacity 1) by    *)
(* resetC and adaptC.                                                      *)
(*                                                                         *)
(* Units: instants and the cooldown are counted in half seconds, so that   *)
(* a time.Now() read some time after the tick that woke the loop differs   *)
(* from the instant of the tick; latencies and the target latency are      *)
(* counted in microseconds, so that the truncation to whole milliseconds   *)
(* done by Record and by the controller is visible.  The float64 values of *)
(* the estimators are modelled bit for bit.                                *)
(***************************************************************************)
EXTENDS Integers, FiniteSets, Sequences, TLC

\* ---------------------------------------------------------------- bounds
\* The clock stops at MaxTime half seconds.
MaxTime == 4
\* At most MaxOps calls of the API (Allow, Record, Stop) are made.
MaxOps == 2

\* ------------------------------------------------------ program constants
\* time.Second, the period of both tickers, in clock units (half seconds).
Second == 2
\* time.Millisecond, in latency units (microseconds).
Millisecond == 1000
\* The zero time.Time, the value of lastAdjustment before any adjustment.
ZeroTime == -1
\* now.Sub(zero time) saturates at the largest Duration.
MaxDuration == 2147483647

\* The goroutines that call Allow.
Callers == {"c1", "c2"}
\* The goroutine that calls Record.
Reporters == {"rec"}
\* The goroutine that calls Stop.
Owners == {"owner"}
\* The goroutine that calls CurrentLimit, ErrorRate and AverageLatency.
Readers == {"get"}
Procs ==
    Callers \cup Reporters \cup Owners \cup Readers \cup {"reset", "adapt"}
\* l.mu unlocked.
NoHolder == "none"

\* The outcomes passed to Record, <<latency in microseconds, err # nil>>:
\* 200.5ms and 203ms without error, 50ms with an error.
Outcomes == {<<200500, FALSE>>, <<203000, FALSE>>, <<50000, TRUE>>}

\* --------------------------------------------------------------- float64
\* float64 values are modelled bit for bit (non-negative, normal, finite):
\* a value is <<e, m>>, standing for m * 2^e, with m a 53-bit natural number
\* (2^52 <= m < 2^53), or <<0, <<>>>> for 0.  Natural numbers of any size
\* are sequences of limbs in base LimbBase, least significant first, without
\* leading zero limbs.  Every operation rounds to nearest, ties to even, as
\* the unfused float64 instructions do.
LimbBits == 13
LimbBase == 8192
MantissaBits == 53

RECURSIVE Pow2(_)
Pow2(k) == IF k = 0 THEN 1 ELSE 2 * Pow2(k - 1)

Limb(a, i) == IF i <= Len(a) THEN a[i] ELSE 0

RECURSIVE BNorm(_)
BNorm(a) ==
    IF a = <<>> THEN a
    ELSE IF a[Len(a)] = 0 THEN BNorm(SubSeq(a, 1, Len(a) - 1)) ELSE a

RECURSIVE BFromInt(_)
BFromInt(n) ==
    IF n = 0 THEN <<>> ELSE <<n % LimbBase>> \o BFromInt(n \div LimbBase)

RECURSIVE BToInt(_)
BToInt(a) == IF a = <<>> THEN 0 ELSE a[1] + LimbBase * BToInt(Tail(a))

RECURSIVE BAddC(_, _, _, _)
BAddC(a, b, i, carry) ==
    IF i > Len(a) /\ i > Len(b)
    THEN IF carry = 0 THEN <<>> ELSE <<carry>>
    ELSE LET s == Limb(a, i) + Limb(b, i) + carry
         IN  <<s % LimbBase>> \o BAddC(a, b, i + 1, s \div LimbBase)

BAdd(a, b) == BAddC(a, b, 1, 0)

RECURSIVE BSubC(_, _, _, _)
BSubC(a, b, i, borrow) ==
    IF i > Len(a) THEN <<>>
    ELSE LET s == a[i] - Limb(b, i) - borrow
         IN  IF s < 0 THEN <<s + LimbBase>> \o BSubC(a, b, i + 1, 1)
             ELSE <<s>> \o BSubC(a, b, i + 1, 0)

\* a - b, for a >= b.
BSub(a, b) == BNorm(BSubC(a, b, 1, 0))

RECURSIVE BMulSmallC(_, _, _, _)
BMulSmallC(a, m, i, carry) ==
    IF i > Len(a)
    THEN IF carry = 0 THEN <<>> ELSE <<carry>>
    ELSE LET s == a[i] * m + carry
         IN  <<s % LimbBase>> \o BMulSmallC(a, m, i + 1, s \div LimbBase)

\* a * m, for 0 <= m < LimbBase.
BMulSmall(a, m) == IF m = 0 THEN <<>> ELSE BMulSmallC(a, m, 1, 0)

\* a * LimbBase^n.
BShlLimbs(a, n) == IF a = <<>> THEN a ELSE [i \in 1..n |-> 0] \o a

RECURSIVE BMulFrom(_, _, _)
BMulFrom(a, b, j) ==
    IF j > Len(b) THEN <<>>
    ELSE BAdd(BShlLimbs(BMulSmall(a, b[j]), j - 1), BMulFrom(a, b, j + 1))

BMul(a, b) == BMulFrom(a, b, 1)

\* a * 2^k.
BShl(a, k) ==
    BShlLimbs(BMulSmall(a, Pow2(k % LimbBits)), k \div LimbBits)

RECURSIVE BDivSmallC(_, _, _, _)
BDivSmallC(a, d, i, rem) ==
    IF i = 0 THEN <<<<>>, rem>>
    ELSE LET cur == rem * LimbBase + a[i]
             rest == BDivSmallC(a, d, i - 1, cur % d)
         IN  <<rest[1] \o <<cur \div d>>, rest[2]>>

\* <<a \div d, a % d>>, for 0 < d < LimbBase.
BDivSmall(a, d) ==
    LET r == BDivSmallC(a, d, Len(a), 0) IN <<BNorm(r[1]), r[2]>>

\* a \div 2^k.
BShr(a, k) ==
    LET n == k \div LimbBits
    IN  IF n >= Len(a) THEN <<>>
        ELSE BDivSmall(SubSeq(a, n + 1, Len(a)), Pow2(k % LimbBits))[1]

\* a % 2^k = 0.
BLowZero(a, k) ==
    LET n == k \div LimbBits
    IN  /\ \A i \in 1..n : Limb(a, i) = 0
        /\ Limb(a, n + 1) % Pow2(k % LimbBits) = 0

\* Bit k of a (bit 0 is the least significant).
BBit(a, k) ==
    (Limb(a, k \div LimbBits + 1) \div Pow2(k % LimbBits)) % 2

RECURSIVE IntBitLen(_)
IntBitLen(n) == IF n = 0 THEN 0 ELSE 1 + IntBitLen(n \div 2)

BBitLen(a) ==
    IF a = <<>> THEN 0 ELSE (Len(a) - 1) * LimbBits + IntBitLen(a[Len(a)])

RECURSIVE BGreaterFrom(_, _, _)
BGreaterFrom(a, b, i) ==
    IF i = 0 THEN FALSE
    ELSE IF a[i] # b[i] THEN a[i] > b[i] ELSE BGreaterFrom(a, b, i - 1)

\* a > b.
BGreater(a, b) ==
    IF Len(a) # Len(b) THEN Len(a) > Len(b) ELSE BGreaterFrom(a, b, Len(a))

\* The float64 0.
FZero == <<0, <<>>>>

\* Rounding to nearest, ties to even: the float64 nearest to n * 2^e, for a
\* natural number n > 0; with sticky, to a value strictly between n * 2^e
\* and (n + 1) * 2^e (n then has more than MantissaBits + 1 bits).
FRound(n, e, sticky) ==
    LET len == BBitLen(n)
        k == len - MantissaBits
    IN  IF k <= 0 THEN <<e + k, BShl(n, -k)>>
        ELSE LET q == BShr(n, k)
                 above == ~BLowZero(n, k - 1) \/ sticky
                 up == BBit(n, k - 1) = 1 /\ (above \/ BBit(q, 0) = 1)
                 r == IF up THEN BAdd(q, <<1>>) ELSE q
             IN  IF BBitLen(r) > MantissaBits
                 THEN <<e + k + 1, BShr(r, 1)>>
                 ELSE <<e + k, r>>

\* The float64 product x * y.
FMul(x, y) ==
    IF x = FZero \/ y = FZero THEN FZero
    ELSE FRound(BMul(x[2], y[2]), x[1] + y[1], FALSE)

\* The float64 sum x + y.
FAdd(x, y) ==
    IF x = FZero THEN y
    ELSE IF y = FZero THEN x
    ELSE LET e == IF x[1] < y[1] THEN x[1] ELSE y[1]
         IN  FRound(BAdd(BShl(x[2], x[1] - e), BShl(y[2], y[1] - e)), e, FALSE)

\* x > y.
FGT(x, y) ==
    IF x = FZero THEN FALSE
    ELSE IF y = FZero THEN TRUE
    ELSE IF x[1] # y[1] THEN x[1] > y[1] ELSE BGreater(x[2], y[2])

\* The float64 difference x - y, for x >= y.
FSub(x, y) ==
    IF y = FZero \/ x = y THEN (IF x = y THEN FZero ELSE x)
    ELSE LET e == IF x[1] < y[1] THEN x[1] ELSE y[1]
         IN  FRound(BSub(BShl(x[2], x[1] - e), BShl(y[2], y[1] - e)), e, FALSE)

\* float64(n), for an integer n >= 0.
FFromInt(n) == IF n = 0 THEN FZero ELSE FRound(BFromInt(n), 0, FALSE)

\* The float64 constant n/d (n >= 0, 0 < d < LimbBase, n/d >= 2^-15), as the
\* compiler rounds it.
FFromRat(n, d) ==
    IF n = 0 THEN FZero
    ELSE LET q == BDivSmall(BShl(BFromInt(n), 70), d)
         IN  FRound(q[1], -70, q[2] # 0)

\* The limbs of m from limb i up, divided by 2^s and truncated (s > 0).
RECURSIVE TruncFrom(_, _, _)
TruncFrom(m, s, i) ==
    IF i > Len(m) THEN 0
    ELSE (IF LimbBits * (i - 1) >= s
          THEN m[i] * Pow2(LimbBits * (i - 1) - s)
          ELSE IF s - LimbBits * (i - 1) >= LimbBits THEN 0
          ELSE m[i] \div Pow2(s - LimbBits * (i - 1)))
         + TruncFrom(m, s, i + 1)

\* The integer part of x, for x < 2^31 (conversion of a float64 to an
\* integer type).
FTrunc(x) ==
    IF x = FZero \/ -x[1] >= MantissaBits THEN 0
    ELSE TruncFrom(x[2], -x[1], 1)

\* The float64 1.
FOne == FFromInt(1)

\* ------------------------------------------------------------------ EWMA
\* NewEWMA(alpha): value 0, not initialised.
NewEWMA(alpha) == [alpha |-> alpha, value |-> FZero, init |-> FALSE]

\* Mutant of Blend: no smoothing, the sample replaces the value.
BlendUnsmoothed(alpha, sample, value) == sample

\* Mutant of Blend: the weights of the sample and of the value are swapped.
BlendSwapped(alpha, sample, value) ==
    FAdd(FMul(alpha, value), FMul(FSub(FOne, alpha), sample))

\* e.alpha*sample + (1-e.alpha)*e.value, in float64.
Blend(alpha, sample, value) ==
    FAdd(FMul(alpha, sample), FMul(FSub(FOne, alpha), value))

\* EWMA.Update(sample): the first sample seeds the value.
Update(e, sample) ==
    IF ~e.init
    THEN [e EXCEPT !.value = sample, !.init = TRUE]
    ELSE [e EXCEPT !.value = Blend(e.alpha, sample, e.value)]

\* EWMA.Value().
Value(e) == e.value

\* --------------------------------------------------------- configuration
\* AdaptiveConfig, with the initial limit passed to NewAdaptivePerSecond.
Config(limit, target, rate, inc, dec, min, max, cooldown) ==
    [limit |-> limit, TargetLatency |-> target, MaxErrorRate |-> rate,
     IncreaseStep |-> inc, DecreaseStep |-> dec, MinLimit |-> min,
     MaxLimit |-> max, Cooldown |-> cooldown]

\* The configurations explored, with small limits: the one of the tests
\* (limit 2, no cooldown), the one of the benchmarks and of the README (an
\* initial limit above MaxLimit, a cooldown of two seconds), and an
\* unvalidated one (an initial limit of zero, MinLimit above MaxLimit, a
\* maximum error rate of 1, a cooldown of one second, the period of the
\* ticker), and one with a negative cooldown.
Configs ==
    { Config(2, 200000, FFromRat(5, 100), 1, 2, 1, 4, 0),
      Config(2, 200000, FFromRat(5, 100), 1, 2, 1, 1, 2 * Second),
      Config(0, 200000, FOne, 1, 1, 2, 1, Second),
      Config(1, 200000, FFromRat(5, 100), 1, 2, 1, 4, -Second) }

\* ----------------------------------------------------------------- state
VARIABLES
    cfg,             \* l.cfg
    baseLimit,       \* l.baseLimit
    currentLimit,    \* l.currentLimit
    count,           \* l.count
    lastReset,       \* l.lastReset
    lastAdjustment,  \* l.lastAdjustment
    latencyEWMA,     \* l.latencyEWMA
    errorEWMA,       \* l.errorEWMA
    mu,              \* l.mu: its holder, or NoHolder
    stopCh,          \* l.stopCh: "open" or "closed"
    now,             \* the clock
    resetC,          \* a tick is buffered in the reset ticker's channel
    adaptC,          \* a tick is buffered in the controller ticker's channel
    pc,              \* the position of every goroutine
    tickNow,         \* the controller's local now (ZeroTime outside a tick)
    latencyValue,    \* what l.latencyEWMA.Value() returned to the controller
                     \* (0 outside a tick)
    errorRate,       \* the controller's local errorRate (0 outside a tick)
    errArg,          \* Record's argument err # nil, per reporter
    ret,             \* the result of the Allow each caller is in (FALSE
                     \* while it is in none)
    calls,           \* history: Allow decisions in the current window
    granted,         \* history: Allow decisions that admitted, same window
    disturbed,       \* history: the ceiling changed in the current window
    fresh,           \* history: after is "no", or no Allow was decided before
                     \* the one of caller by since the last reset, which
                     \* ended a window that was "full" or "open"
    entry,           \* history: the limiter's fields when each Allow took
                     \* the lock
    lastChange,      \* history: the tick instant of the last ceiling change
    prevLimit,       \* history: the ceiling before the adjustment of the tick
                     \* in progress (0 outside)
    stopHolder,      \* history: who held l.mu when Stop closed the channel
    ops,             \* history: calls of Allow, Record, Stop and the getters
    ewma,            \* an estimator on its own (ewma := NewEWMA(alpha))
    fed,             \* history: the samples given to ewma.Update, in order
    got,             \* the result of the last ewma.Value()
    read             \* the getter the reader is in and the value it has read

limiter == <<cfg, baseLimit, currentLimit, count, lastReset, lastAdjustment>>
estimators == <<latencyEWMA, errorEWMA>>
control == <<mu, stopCh, now, resetC, adaptC, pc, tickNow, latencyValue,
            errorRate, errArg, ret>>
history == <<calls, granted, disturbed, fresh, entry, lastChange, prevLimit,
            stopHolder, ops>>
harness == <<ewma, fed, got>>
vars == <<limiter, estimators, control, history, harness, read>>

\* No Allow is in progress for a caller.
NoEntry == <<>>

\* The reader is in no getter.
NoRead == [kind |-> "none", limit |-> 0, rate |-> FZero, latency |-> 0]

\* NewAdaptivePerSecond(limit, cfg): the limit is stored as given, both
\* estimators are new, both loops wait in their select.
Constructed ==
    /\ cfg \in Configs
    /\ baseLimit = cfg.limit
    /\ currentLimit = cfg.limit
    /\ count = 0
    /\ lastReset = 0
    /\ lastAdjustment = ZeroTime
    /\ latencyEWMA = NewEWMA(FFromRat(3, 10))
    /\ errorEWMA = NewEWMA(FFromRat(2, 10))
    /\ mu = NoHolder
    /\ stopCh = "open"
    /\ now = 0
    /\ resetC = FALSE
    /\ adaptC = FALSE
    /\ pc = [p \in Procs |-> IF p \in {"reset", "adapt"} THEN "select" ELSE "idle"]
    /\ tickNow = ZeroTime
    /\ latencyValue = FZero
    /\ errorRate = FZero
    /\ errArg = [r \in Reporters |-> FALSE]
    /\ ret = [c \in Callers |-> FALSE]
    /\ calls = 0
    /\ granted = 0
    /\ disturbed = FALSE
    /\ fresh = [after |-> "no", by |-> "none"]
    /\ entry = [c \in Callers |-> NoEntry]
    /\ lastChange = ZeroTime
    /\ prevLimit = 0
    /\ stopHolder = NoHolder
    /\ ops = 0
    /\ read = NoRead

\* The limiter is constructed; the estimator on its own is not used.
Init ==
    /\ Constructed
    /\ ewma = NewEWMA(FOne)
    /\ fed = <<>>
    /\ got = FZero

\* -------------------------------------------------------------- the lock
\* Mutant of CanLock: the lock excludes nobody.
CanLockAlways(p) == TRUE

\* l.mu.Lock() returns for p only when nobody holds the lock.
CanLock(p) == mu = NoHolder

\* Mutant of Unlocked: the lock is not released.
UnlockedNever(p) == mu

\* l.mu.Unlock() by p.
Unlocked(p) == IF mu = p THEN NoHolder ELSE mu

\* ----------------------------------------------------------------- Allow
\* Mutant of AllowRejects: a count equal to the ceiling is admitted.
AllowRejectsAbove(cnt, limit) == cnt > limit

\* Mutant of AllowRejects: the count is compared with the configured limit,
\* not with the current ceiling.
AllowRejectsAtConfigured(cnt, limit) == cnt >= cfg.limit

\* The test of Allow: the request is rejected.
AllowRejects(cnt, limit) == cnt >= limit

\* Mutant of Incremented: an admission counts twice.
IncrementedTwice(cnt) == cnt + 2

\* l.count++
Incremented(cnt) == cnt + 1

\* l.mu.Lock(); if l.count >= l.currentLimit { return false }: the lock is
\* taken and the test decides the result of the call.
AllowLock(c) ==
    /\ pc[c] = "idle"
    /\ ops < MaxOps
    /\ ops' = ops + 1
    /\ CanLock(c)
    /\ mu' = c
    /\ IF AllowRejects(count, currentLimit)
       THEN /\ ret' = [ret EXCEPT ![c] = FALSE]
            /\ pc' = [pc EXCEPT ![c] = "allow_unlock"]
            /\ granted' = granted
       ELSE /\ ret' = [ret EXCEPT ![c] = TRUE]
            /\ pc' = [pc EXCEPT ![c] = "allow_inc"]
            /\ granted' = granted + 1
    /\ calls' = calls + 1
    /\ fresh' = IF fresh.after # "no" /\ fresh.by = "none"
                THEN [fresh EXCEPT !.by = c] ELSE fresh
    /\ entry' = [entry EXCEPT ![c] = limiter]
    /\ UNCHANGED <<harness, read>>
    /\ UNCHANGED <<limiter, estimators, stopCh, now, resetC, adaptC, tickNow,
                   latencyValue, errorRate, errArg, disturbed, lastChange,
                   prevLimit, stopHolder>>

\* l.count++; return true, with the deferred l.mu.Unlock().
AllowInc(c) ==
    /\ pc[c] = "allow_inc"
    /\ count' = Incremented(count)
    /\ mu' = Unlocked(c)
    /\ pc' = [pc EXCEPT ![c] = "idle"]
    /\ ret' = [ret EXCEPT ![c] = FALSE]
    /\ fresh' = IF fresh.by = c THEN [after |-> "no", by |-> "none"] ELSE fresh
    /\ entry' = [entry EXCEPT ![c] = NoEntry]
    /\ UNCHANGED <<harness, read>>
    /\ UNCHANGED <<cfg, baseLimit, currentLimit, lastReset, lastAdjustment,
                   estimators, stopCh, now, resetC, adaptC, tickNow,
                   latencyValue, errorRate, errArg, calls, granted, disturbed,
                   lastChange, prevLimit, stopHolder, ops>>

\* return false, with the deferred l.mu.Unlock().
AllowUnlock(c) ==
    /\ pc[c] = "allow_unlock"
    /\ mu' = Unlocked(c)
    /\ pc' = [pc EXCEPT ![c] = "idle"]
    /\ ret' = [ret EXCEPT ![c] = FALSE]
    /\ fresh' = IF fresh.by = c THEN [after |-> "no", by |-> "none"] ELSE fresh
    /\ entry' = [entry EXCEPT ![c] = NoEntry]
    /\ UNCHANGED <<harness, read>>
    /\ UNCHANGED <<limiter, estimators, stopCh, now, resetC, adaptC, tickNow,
                   latencyValue, errorRate, errArg, calls, granted, disturbed,
                   lastChange, prevLimit, stopHolder, ops>>

\* ---------------------------------------------------------------- Record
\* Mutant of Milliseconds: the latency is fed in microseconds.
Microseconds(latency) == latency

\* latency.Milliseconds(): int64(d) / 1e6, an integer division, which
\* truncates toward zero (of a negative latency as well).
Milliseconds(latency) ==
    IF latency >= 0
    THEN latency \div Millisecond
    ELSE -((-latency) \div Millisecond)

\* Mutant of ErrorSample: a failure counts twice.
ErrorSampleTwice(failed) == IF failed THEN 2 ELSE 0

\* The sample Record gives the error estimator.
ErrorSample(failed) == IF failed THEN 1 ELSE 0

\* l.latencyEWMA.Update(float64(latency.Milliseconds()))
RecordLatency(r, latency, failed) ==
    /\ pc[r] = "idle"
    /\ ops < MaxOps
    /\ ops' = ops + 1
    /\ latencyEWMA' = Update(latencyEWMA, FFromInt(Milliseconds(latency)))
    /\ errArg' = [errArg EXCEPT ![r] = failed]
    /\ pc' = [pc EXCEPT ![r] = "record_err"]
    /\ UNCHANGED <<harness, read>>
    /\ UNCHANGED <<limiter, errorEWMA, mu, stopCh, now, resetC, adaptC, tickNow,
                   latencyValue, errorRate, ret, calls, granted, disturbed,
                   fresh, entry, lastChange, prevLimit, stopHolder>>

\* l.errorEWMA.Update(1) or l.errorEWMA.Update(0)
RecordError(r) ==
    /\ pc[r] = "record_err"
    /\ errorEWMA' = Update(errorEWMA, FFromInt(ErrorSample(errArg[r])))
    /\ errArg' = [errArg EXCEPT ![r] = FALSE]
    /\ pc' = [pc EXCEPT ![r] = "idle"]
    /\ UNCHANGED <<harness, read>>
    /\ UNCHANGED <<limiter, latencyEWMA, mu, stopCh, now, resetC, adaptC,
                   tickNow, latencyValue, errorRate, ret, history>>

\* ------------------------------------------------------------------ Stop
\* close(l.stopCh): closing a closed channel panics in the calling
\* goroutine, which ends there.  (An unrecovered panic ends the whole
\* program: every behaviour of that is a prefix of one of this model.)
Stop(o) ==
    /\ pc[o] = "idle"
    /\ ops < MaxOps
    /\ ops' = ops + 1
    /\ IF stopCh = "open"
       THEN /\ stopCh' = "closed"
            /\ pc' = pc
       ELSE /\ stopCh' = stopCh
            /\ pc' = [pc EXCEPT ![o] = "panicked"]
    /\ stopHolder' = IF stopCh = "open" THEN mu ELSE stopHolder
    /\ UNCHANGED <<harness, read>>
    /\ UNCHANGED <<limiter, estimators, mu, now, resetC, adaptC, tickNow,
                   latencyValue, errorRate, errArg, ret, calls, granted,
                   disturbed, fresh, entry, lastChange, prevLimit>>

\* Mutant of StopSignalled: the loops never see the channel closed.
StopNeverSignalled == FALSE

\* case <-l.stopCh: a receive from the closed channel is ready.
StopSignalled == stopCh = "closed"

\* ------------------------------------------------------------ reset loop
\* case <-ticker.C of the reset loop.
ResetRecv ==
    /\ pc["reset"] = "select"
    /\ resetC
    /\ resetC' = FALSE
    /\ pc' = [pc EXCEPT !["reset"] = "lock"]
    /\ UNCHANGED <<harness, read>>
    /\ UNCHANGED <<limiter, estimators, mu, stopCh, now, adaptC, tickNow,
                   latencyValue, errorRate, errArg, ret, history>>

\* l.mu.Lock() of the reset loop.
ResetLock ==
    /\ pc["reset"] = "lock"
    /\ CanLock("reset")
    /\ mu' = "reset"
    /\ pc' = [pc EXCEPT !["reset"] = "window"]
    /\ UNCHANGED <<harness, read>>
    /\ UNCHANGED <<limiter, estimators, stopCh, now, resetC, adaptC, tickNow,
                   latencyValue, errorRate, errArg, ret, history>>

\* Mutant of ResetCount: the reset keeps the count.
ResetCountKept(cnt) == cnt

\* Mutant of ResetCount: the reset frees one slot only.
ResetCountDecrement(cnt) == IF cnt > 0 THEN cnt - 1 ELSE 0

\* l.count = 0
ResetCount(cnt) == 0

\* l.count = 0; l.lastReset = time.Now(); l.mu.Unlock()
ResetWindow ==
    /\ pc["reset"] = "window"
    /\ count' = ResetCount(count)
    /\ lastReset' = now
    /\ mu' = Unlocked("reset")
    /\ pc' = [pc EXCEPT !["reset"] = "select"]
    /\ calls' = 0
    /\ granted' = 0
    /\ disturbed' = FALSE
    /\ fresh' = [after |-> IF AllowRejects(count, currentLimit)
                            THEN "full" ELSE "open",
                  by |-> "none"]
    /\ UNCHANGED <<harness, read>>
    /\ UNCHANGED <<cfg, baseLimit, currentLimit, lastAdjustment, estimators,
                   stopCh, now, resetC, adaptC, tickNow, latencyValue, errorRate,
                   errArg, ret, entry, lastChange, prevLimit, stopHolder, ops>>

\* case <-l.stopCh of the reset loop: return (and the deferred ticker.Stop()).
ResetExit ==
    /\ pc["reset"] = "select"
    /\ StopSignalled
    /\ pc' = [pc EXCEPT !["reset"] = "done"]
    /\ UNCHANGED <<harness, read>>
    /\ UNCHANGED <<limiter, estimators, mu, stopCh, now, resetC, adaptC, tickNow,
                   latencyValue, errorRate, errArg, ret, history>>

\* ------------------------------------------------------- controller loop
\* Mutant of Elapsed: measured from the start, not from the last adjustment.
ElapsedSinceStart(t, last) == t

\* Mutant of Elapsed: the zero time counts as the time of the tick.
ElapsedFromZeroTime(t, last) == IF last = ZeroTime THEN 0 ELSE t - last

\* now.Sub(l.lastAdjustment): saturated when lastAdjustment is the zero time.
Elapsed(t, last) == IF last = ZeroTime THEN MaxDuration ELSE t - last

\* Mutant of Gated: no cooldown test.
GatedNever(t, last, c) == FALSE

\* now.Sub(l.lastAdjustment) < l.cfg.Cooldown: the tick does nothing.
Gated(t, last, c) == Elapsed(t, last) < c.Cooldown

\* time.Duration(l.latencyEWMA.Value()) * time.Millisecond, for the value
\* the estimator returned: whole milliseconds, in microseconds.
AvgLatency(value) == FTrunc(value) * Millisecond

\* Mutant of Unhealthy: a signal equal to its threshold counts as exceeding it.
UnhealthyAtThreshold(avg, rate, c) ==
    avg >= c.TargetLatency \/ ~FGT(c.MaxErrorRate, rate)

\* avgLatency > l.cfg.TargetLatency || errorRate > l.cfg.MaxErrorRate
Unhealthy(avg, rate, c) ==
    avg > c.TargetLatency \/ FGT(rate, c.MaxErrorRate)

\* increaseLimit()
increaseLimit(limit, c) ==
    LET l == limit + c.IncreaseStep
    IN  IF l > c.MaxLimit THEN c.MaxLimit ELSE l

\* decreaseLimit()
decreaseLimit(limit, c) ==
    LET l == limit - c.DecreaseStep
    IN  IF l < c.MinLimit THEN c.MinLimit ELSE l

\* case <-ticker.C of the controller loop.
AdaptRecv ==
    /\ pc["adapt"] = "select"
    /\ adaptC
    /\ adaptC' = FALSE
    /\ pc' = [pc EXCEPT !["adapt"] = "lock"]
    /\ UNCHANGED <<harness, read>>
    /\ UNCHANGED <<limiter, estimators, mu, stopCh, now, resetC, tickNow,
                   latencyValue, errorRate, errArg, ret, history>>

\* l.mu.Lock(); now := time.Now()
AdaptLock ==
    /\ pc["adapt"] = "lock"
    /\ CanLock("adapt")
    /\ mu' = "adapt"
    /\ tickNow' = now
    /\ pc' = [pc EXCEPT !["adapt"] = "gate"]
    /\ UNCHANGED <<harness, read>>
    /\ UNCHANGED <<limiter, estimators, stopCh, now, resetC, adaptC,
                   latencyValue, errorRate, errArg, ret, history>>

\* The cooldown test: a gated tick unlocks and continues; an eligible one
\* calls l.latencyEWMA.Value().
AdaptGate ==
    /\ pc["adapt"] = "gate"
    /\ IF Gated(tickNow, lastAdjustment, cfg)
       THEN /\ mu' = Unlocked("adapt")
            /\ pc' = [pc EXCEPT !["adapt"] = "select"]
            /\ latencyValue' = latencyValue
            /\ tickNow' = ZeroTime
       ELSE /\ mu' = mu
            /\ pc' = [pc EXCEPT !["adapt"] = "adjust"]
            /\ latencyValue' = Value(latencyEWMA)
            /\ tickNow' = tickNow
    /\ UNCHANGED <<harness, read>>
    /\ UNCHANGED <<limiter, estimators, stopCh, now, resetC, adaptC, errorRate,
                   errArg, ret, history>>

\* avgLatency is converted from the value read; errorRate :=
\* l.errorEWMA.Value(); the health test; decreaseLimit() or increaseLimit();
\* l.lastAdjustment = now
AdaptAdjust ==
    /\ pc["adapt"] = "adjust"
    /\ errorRate' = Value(errorEWMA)
    /\ currentLimit' =
          IF Unhealthy(AvgLatency(latencyValue), errorRate', cfg)
          THEN decreaseLimit(currentLimit, cfg)
          ELSE increaseLimit(currentLimit, cfg)
    /\ lastAdjustment' = tickNow
    /\ pc' = [pc EXCEPT !["adapt"] = "unlock"]
    /\ disturbed' = (disturbed \/ currentLimit' # currentLimit)
    /\ lastChange' = IF currentLimit' # currentLimit THEN tickNow ELSE lastChange
    /\ prevLimit' = currentLimit
    /\ UNCHANGED <<harness, read>>
    /\ UNCHANGED <<cfg, baseLimit, count, lastReset, estimators, mu, stopCh,
                   now, resetC, adaptC, tickNow, latencyValue, errArg, ret,
                   calls, granted, fresh, entry, stopHolder, ops>>

\* l.mu.Unlock() at the end of an eligible tick; its locals go out of scope.
AdaptUnlock ==
    /\ pc["adapt"] = "unlock"
    /\ mu' = Unlocked("adapt")
    /\ pc' = [pc EXCEPT !["adapt"] = "select"]
    /\ tickNow' = ZeroTime
    /\ latencyValue' = FZero
    /\ errorRate' = FZero
    /\ prevLimit' = 0
    /\ UNCHANGED <<harness, read>>
    /\ UNCHANGED <<limiter, estimators, stopCh, now, resetC, adaptC, errArg,
                   ret, calls, granted, disturbed, fresh, entry, lastChange,
                   stopHolder, ops>>

\* case <-l.stopCh of the controller loop: return.
AdaptExit ==
    /\ pc["adapt"] = "select"
    /\ StopSignalled
    /\ pc' = [pc EXCEPT !["adapt"] = "done"]
    /\ UNCHANGED <<harness, read>>
    /\ UNCHANGED <<limiter, estimators, mu, stopCh, now, resetC, adaptC, tickNow,
                   latencyValue, errorRate, errArg, ret, history>>

\* ----------------------------------------------------------------- clock
\* Mutant of Fires: the tickers never send.
FiresNever(p, t) == FALSE

\* A ticker whose goroutine has not returned sends a tick every Second.
Fires(p, t) == pc[p] # "done" /\ t % Second = 0

\* Half a second passes, wherever the goroutines are: a loop reads
\* time.Now() some time after the tick that woke it, later still when it
\* had to wait for l.mu.  A tick that was not received in time stays
\* buffered, and the next one is dropped (the channel holds one tick).
Advance ==
    /\ now < MaxTime
    /\ now' = now + 1
    /\ resetC' = (resetC \/ Fires("reset", now + 1))
    /\ adaptC' = (adaptC \/ Fires("adapt", now + 1))
    /\ UNCHANGED <<harness, read>>
    /\ UNCHANGED <<limiter, estimators, mu, stopCh, pc, tickNow, latencyValue,
                   errorRate, errArg, ret, history>>

\* ------------------------------------------------------------------ spec
CallerStep(c) ==
    \/ AllowLock(c)
    \/ AllowInc(c)
    \/ AllowUnlock(c)

ReporterStep(r) ==
    \/ \E o \in Outcomes : RecordLatency(r, o[1], o[2])
    \/ RecordError(r)

ResetStep == ResetRecv \/ ResetLock \/ ResetWindow \/ ResetExit

AdaptStep ==
    AdaptRecv \/ AdaptLock \/ AdaptGate \/ AdaptAdjust \/ AdaptUnlock \/ AdaptExit

Next ==
    \/ \E c \in Callers : CallerStep(c)
    \/ \E r \in Reporters : ReporterStep(r)
    \/ \E o \in Owners : Stop(o)
    \/ ResetStep
    \/ AdaptStep
    \/ Advance

Spec == Init /\ [][Next]_vars

\* Fair scheduling: a goroutine that can take a step eventually takes it (a
\* goroutine waiting for l.mu gets it once the callers have returned), and
\* time passes.  The callers themselves need not call anything.
Fairness ==
    /\ WF_vars(ResetStep)
    /\ WF_vars(AdaptStep)
    /\ WF_vars(Advance)
    /\ \A c \in Callers : WF_vars(AllowInc(c) \/ AllowUnlock(c))

LiveSpec == Init /\ [][Next]_vars /\ Fairness

\* ------------------------------------------------------------ shorthands
Min2(a, b) == IF a < b THEN a ELSE b
Max2(a, b) == IF a > b THEN a ELSE b

\* ------------------------------------------------------------- claims
\* C1 (as stated): in every reachable state, construction included, the
\* current ceiling lies between the configured minimum and maximum.
C1_CeilingWithinBounds ==
    cfg.MinLimit <= currentLimit /\ currentLimit <= cfg.MaxLimit

\* C2 (as stated): no call of Stop panics, however many times Stop is called.
C2_StopNeverPanics == \A o \in Owners : pc[o] # "panicked"

\* The Allow of caller c has decided to reject and has not returned yet.
Rejecting(c) == pc[c] = "allow_unlock" /\ ret[c] = FALSE

\* The callers whose Allow has admitted and has not incremented yet.
Admitting == {c \in Callers : pc[c] = "allow_inc"}

\* C3: in a window with no ceiling change since its reset, the Allow calls
\* decided so far admitted exactly min(calls, ceiling) requests (ceiling
\* taken as 0 when negative), so never more than the ceiling; and every
\* admission is counted exactly once, its increment being taken under the
\* lock of its test.
C3_AdmitsUpToCeiling ==
    /\ ~disturbed => granted = Min2(calls, Max2(0, currentLimit))
    /\ count + Cardinality(Admitting) = granted
    /\ Cardinality(Admitting) <= 1

\* C3 witness: an undisturbed window with a positive ceiling received more
\* calls than the ceiling, admitted exactly the ceiling, and a caller is
\* being rejected.
C3_Witness ==
    /\ ~disturbed
    /\ currentLimit > 0
    /\ calls > currentLimit
    /\ granted = currentLimit
    /\ count = currentLimit
    /\ \E c \in Callers : Rejecting(c)

\* C4: the ceiling changes only in the adjusting step of a controller tick,
\* and a tick that changes it reads a time at least the cooldown after the
\* time read by the tick of the previous change.
C4_ChangeOnlyInTickAfterCooldown ==
    [][currentLimit' # currentLimit =>
          /\ pc["adapt"] = "adjust"
          /\ pc'["adapt"] = "unlock"
          /\ mu = "adapt"
          /\ lastChange # ZeroTime => tickNow - lastChange >= cfg.Cooldown]_vars

\* C4 witness: with a positive cooldown, a tick that follows a ceiling change
\* by less than the cooldown is being gated.
C4_Witness ==
    /\ cfg.Cooldown > 0
    /\ lastChange # ZeroTime
    /\ pc["adapt"] = "gate"
    /\ tickNow - lastChange < cfg.Cooldown
    /\ Gated(tickNow, lastAdjustment, cfg)

\* The target latency in milliseconds (a whole number of them), as a float64.
TargetMillis == FFromRat(cfg.TargetLatency, Millisecond)

\* An eligible controller tick has adjusted the ceiling and still holds its
\* locals: the smoothed latency and the smoothed error rate it read.
Adjusted == pc["adapt"] = "unlock"

\* C5 (as stated): after the adjustment of an eligible tick that read a
\* smoothed latency above the target or a smoothed error rate above the
\* maximum, the ceiling is max(MinLimit, old ceiling - DecreaseStep).
C5_DecreaseWhenUnhealthy ==
    Adjusted /\ (FGT(latencyValue, TargetMillis)
                 \/ FGT(errorRate, cfg.MaxErrorRate))
        => currentLimit = Max2(cfg.MinLimit, prevLimit - cfg.DecreaseStep)

\* C6: after the adjustment of an eligible tick that read a smoothed latency
\* not above the target and a smoothed error rate not above the maximum
\* (equal to it, or nothing reported yet, included), the ceiling is
\* min(MaxLimit, old ceiling + IncreaseStep).
C6_IncreaseWhenHealthy ==
    Adjusted /\ ~FGT(latencyValue, TargetMillis)
             /\ ~FGT(errorRate, cfg.MaxErrorRate)
        => currentLimit = Min2(cfg.MaxLimit, prevLimit + cfg.IncreaseStep)

\* C6 witness: a tick read a reported smoothed latency exactly equal to the
\* target, and raised the ceiling by exactly the increase step.
C6_Witness ==
    /\ Adjusted
    /\ latencyEWMA.init
    /\ latencyValue = TargetMillis
    /\ ~FGT(errorRate, cfg.MaxErrorRate)
    /\ currentLimit = prevLimit + cfg.IncreaseStep
    /\ currentLimit <= cfg.MaxLimit
    /\ cfg.IncreaseStep > 0

\* C7: the first Allow decided after a window reset returns true whenever
\* the ceiling is above 0.
C7_AllowAfterReset ==
    \A c \in Callers : fresh.by = c /\ currentLimit > 0 => ret[c] = TRUE

\* C7 witness: the reset ended a window that was exhausted at a positive
\* initial ceiling, and the first Allow after it is admitting.
C7_Witness ==
    /\ fresh.after = "full"
    /\ cfg.limit > 0
    /\ ops = MaxOps
    /\ \E c \in Callers : fresh.by = c /\ ret[c] = TRUE /\ pc[c] = "allow_inc"

\* The window has just been reset and a call would be admitted if the
\* ceiling is above 0.
WindowReset ==
    /\ calls = 0
    /\ count = 0
    /\ currentLimit > 0 => ~AllowRejects(count, currentLimit)

\* C8: under fair scheduling, whenever an Allow is rejected while the
\* limiter is not stopped (and the bounded clock reaches the instant of the
\* next tick), the window is eventually reset, or the limiter is stopped.
C8_ExhaustedWindowEventuallyReset ==
    \A c \in Callers :
        (/\ Rejecting(c)
         /\ ~StopSignalled
         /\ \E t \in (now + 1)..MaxTime : t % Second = 0)
            ~> (WindowReset \/ StopSignalled)

\* C8 witness: the limiter is not stopped, and a reset has ended an
\* exhausted window at a positive ceiling.
C8_Witness ==
    /\ ~StopSignalled
    /\ fresh = [after |-> "full", by |-> "none"]
    /\ WindowReset
    /\ currentLimit > 0
    /\ lastReset > 0
    /\ ops > currentLimit

\* The two background loops.
Loops == {"reset", "adapt"}

\* Both loops have returned.
Terminated == \A p \in Loops : pc[p] = "done"

\* C9: under fair scheduling both loops return after Stop; a loop returns
\* only from its select, not holding the lock, so a tick in its critical
\* section finishes and unlocks first; once the reset loop has returned the
\* count is never reset, and once the controller loop has returned the
\* ceiling never changes.
C9_LoopsTerminateAfterStop ==
    /\ StopSignalled ~> Terminated
    /\ [][/\ \A p \in Loops :
                (pc[p] # "done" /\ pc'[p] = "done")
                    => (pc[p] = "select" /\ mu # p /\ mu' = mu)
          /\ pc["reset"] = "done"
                => (count' >= count /\ lastReset' = lastReset)
          /\ pc["adapt"] = "done"
                => (currentLimit' = currentLimit
                    /\ lastAdjustment' = lastAdjustment)]_vars

\* C9 witness: Stop was called while the controller tick held the lock; the
\* tick completed its adjustment, released the lock, and both loops returned.
C9_Witness ==
    /\ stopHolder = "adapt"
    /\ Terminated
    /\ mu = NoHolder
    /\ lastAdjustment = now

\* C10: Allow decides true exactly when the count is below the ceiling as
\* it takes the lock; an admitting call returns with the count one above
\* what it found and every other field as it found it; a rejecting call
\* returns with every field as it found it; no step of Allow touches the
\* estimators.
C10_AllowFrame ==
    [][\A c \in Callers :
          /\ (pc[c] = "idle" /\ pc'[c] # "idle")
                => /\ ret'[c] = (count < currentLimit)
                   /\ limiter' = limiter
                   /\ estimators' = estimators
          /\ (pc[c] = "allow_inc" /\ pc'[c] = "idle")
                => /\ ret[c] = TRUE
                   /\ limiter' = [entry[c] EXCEPT ![4] = entry[c][4] + 1]
                   /\ estimators' = estimators
          /\ (pc[c] = "allow_unlock" /\ pc'[c] = "idle")
                => /\ ret[c] = FALSE
                   /\ limiter' = entry[c]
                   /\ estimators' = estimators]_vars

\* C10 witness: one caller has been admitted and returned, and another is
\* being rejected at a count equal to a positive ceiling, everything as it
\* found it.
C10_Witness ==
    /\ currentLimit > 0
    /\ count = currentLimit
    /\ \E c \in Callers :
          /\ Rejecting(c)
          /\ entry[c] = limiter
    /\ \E c \in Callers : pc[c] = "idle"

\* C11: Record changes nothing but the two estimators: its first step feeds
\* the latency of some outcome, in whole milliseconds, to the latency
\* estimator and nothing else; its second step feeds 1 to the error
\* estimator when err is non-nil and 0 otherwise, and nothing else; the
\* ceiling, the count, the window start and the last-adjustment instant are
\* untouched, and Record never waits for l.mu.
C11_RecordFrame ==
    [][\A r \in Reporters :
          /\ (pc[r] = "idle" /\ pc'[r] = "record_err")
                => /\ limiter' = limiter
                   /\ errorEWMA' = errorEWMA
                   /\ \E o \in Outcomes :
                         /\ errArg'[r] = o[2]
                         /\ latencyEWMA' =
                               Update(latencyEWMA, FFromInt(o[1] \div 1000))
          /\ (pc[r] = "record_err" /\ pc'[r] = "idle")
                => /\ limiter' = limiter
                   /\ latencyEWMA' = latencyEWMA
                   /\ errorEWMA' =
                         Update(errorEWMA, IF errArg[r] THEN FOne ELSE FZero)
          /\ (pc[r] # pc'[r]) => (mu' = mu /\ ret' = ret)]_vars

\* C11 witness: a failed request of 50 ms has been recorded while a caller
\* holds the lock, and the limiter's own fields are as constructed.
C11_Witness ==
    /\ \A r \in Reporters : pc[r] = "idle"
    /\ latencyEWMA.init /\ latencyEWMA.value = FFromInt(50)
    /\ errorEWMA.init /\ errorEWMA.value = FOne
    /\ mu \in Callers
    /\ currentLimit = cfg.limit
    /\ lastAdjustment = ZeroTime
    /\ lastReset = 0
    /\ ops = 2

\* ---------------------------------------------------------------- getters
\* time.Microsecond, in nanoseconds, the unit of a time.Duration.
Microsecond == 1000

\* CurrentLimit(): the value a call returns in this state.
CurrentLimit == currentLimit

\* ErrorRate(): l.errorEWMA.Value().
ErrorRate == Value(errorEWMA)

\* AverageLatency(): time.Duration(l.latencyEWMA.Value()), a number of
\* nanoseconds.
AverageLatency == FTrunc(Value(latencyEWMA))

\* C12 (as stated): once a latency has been recorded, AverageLatency()
\* returns the smoothed latency as the duration the controller compares
\* with TargetLatency (after Record of d only, d itself).
C12_AverageLatencyInRecordUnits ==
    latencyEWMA.init
        => AverageLatency = AvgLatency(Value(latencyEWMA)) * Microsecond

\* C13: ErrorRate() is between 0.0 and 1.0 in every state.
C13_ErrorRateInUnitInterval ==
    ~FGT(FZero, ErrorRate) /\ ~FGT(ErrorRate, FOne)

\* C13 witness: after requests that failed and requests that did not,
\* ErrorRate() is strictly between 0 and 1.
C13_Witness ==
    /\ errorEWMA.init
    /\ \A r \in Reporters : pc[r] = "idle"
    /\ FGT(ErrorRate, FZero)
    /\ FGT(FOne, ErrorRate)

\* ------------------------------------------------ an estimator on its own
\* At most MaxUpdates samples are given to the estimator.
MaxUpdates == 3

\* The float64 2^-60.
FTiny == <<-112, BShl(<<1>>, 52)>>

\* The smoothing factors explored: 0.5 (the tests), 0.3 and 0.2 (the
\* limiter), 1 (no smoothing) and 2^-60.
Alphas == {FFromRat(1, 2), FFromRat(3, 10), FFromRat(2, 10), FOne, FTiny}

\* The float64 next above 3.
FThreeUp == <<-51, BAdd(BShl(<<3>>, 51), <<1>>)>>

\* The float64 2^53, and the float64 next above it, 2^53 + 2.
FBig == <<1, BShl(<<1>>, 52)>>
FBigUp == <<1, BAdd(BShl(<<1>>, 52), <<1>>)>>

\* The samples explored, as float64 values: 0, 3, 100 and 300, and two pairs
\* of neighbouring values, whose blends fall between two float64 values.
Samples ==
    {FFromInt(0), FFromInt(3), FThreeUp, FFromInt(100), FFromInt(300),
     FBig, FBigUp}

\* ewma := NewEWMA(alpha), next to a limiter that is left alone.
EwmaInit ==
    /\ Constructed
    /\ ewma \in {NewEWMA(alpha) : alpha \in Alphas}
    /\ fed = <<>>
    /\ got = FZero

\* ewma.Update(sample)
EwmaUpdate(sample) ==
    /\ Len(fed) < MaxUpdates
    /\ ewma' = Update(ewma, sample)
    /\ fed' = Append(fed, sample)
    /\ got' = got
    /\ UNCHANGED <<limiter, estimators, control, history, read>>

\* ewma.Value()
EwmaValue ==
    /\ got' = Value(ewma)
    /\ UNCHANGED <<ewma, fed>>
    /\ UNCHANGED <<limiter, estimators, control, history, read>>

EwmaNext ==
    \/ \E sample \in Samples : EwmaUpdate(sample)
    \/ EwmaValue

EwmaSpec == EwmaInit /\ [][EwmaNext]_vars

\* The sample of the last Update.
LastFed == fed[Len(fed)]

\* C14: the first Update sets the value to exactly the sample, whatever
\* alpha is; a later Update sets it to alpha*sample + (1-alpha)*value,
\* computed in float64; Update keeps alpha; Value() returns the value and
\* changes nothing of the estimator.
C14_UpdateRule ==
    [][/\ fed' # fed
            => /\ ewma'.alpha = ewma.alpha
               /\ ewma'.init
               /\ ewma'.value =
                     IF ~ewma.init
                     THEN fed'[Len(fed')]
                     ELSE FAdd(FMul(ewma.alpha, fed'[Len(fed')]),
                               FMul(FSub(FOne, ewma.alpha), ewma.value))
       /\ fed' = fed => (ewma' = ewma /\ got' = ewma.value)]_vars

\* C14 witness: with alpha 0.3, 100 then 300 were given, the value is
\* 0.3*300 + 0.7*100 (160 up to rounding), and Value() has returned it.
C14_Witness ==
    /\ ewma.alpha = FFromRat(3, 10)
    /\ fed = <<FFromInt(100), FFromInt(300)>>
    /\ FGT(ewma.value, FFromInt(159))
    /\ FGT(FFromInt(161), ewma.value)
    /\ got = ewma.value

\* One or more samples were given and all of them are the same.
Steady == Len(fed) >= 1 /\ \A i \in 1..Len(fed) : fed[i] = fed[1]

\* TRUE for a step that gives a sample higher than the steady ones.
Spike == Steady /\ fed' # fed /\ FGT(fed'[Len(fed')], fed[1])

FRoundingMargin == <<-102, BShl(<<1>>, 52)>>
FJustBelowOne == FSub(FOne, FRoundingMargin)
FJustAboveOne == FAdd(FOne, FRoundingMargin)

C16_ConstantSampleKept == Steady => Value(ewma) = LastFed

\* C17: an eligible controller tick records its time as lastAdjustment,
\* whether or not the ceiling moved; a gated tick leaves lastAdjustment,
\* the ceiling and the count unchanged; a tick is only evaluated when no
\* adjustment is recorded or at least the cooldown has passed since the
\* recorded one, so a saturated ceiling is re-evaluated at the cooldown
\* cadence.
C17_EligibleTickRecordsTime ==
    [][/\ (pc["adapt"] = "adjust" /\ pc'["adapt"] = "unlock")
             => (lastAdjustment' = tickNow /\ count' = count)
       /\ (pc["adapt"] = "gate" /\ pc'["adapt"] = "select")
             => /\ lastAdjustment' = lastAdjustment
                /\ currentLimit' = currentLimit
                /\ count' = count
       /\ (pc["adapt"] = "gate" /\ pc'["adapt"] = "adjust")
             => /\ lastAdjustment' = lastAdjustment
                /\ \/ lastAdjustment = ZeroTime
                   \/ tickNow - lastAdjustment >= cfg.Cooldown
       /\ (pc["adapt"] = "gate" /\ pc'["adapt"] = "select")
             => /\ lastAdjustment # ZeroTime
                /\ tickNow - lastAdjustment < cfg.Cooldown]_vars

\* C17 witness: the second eligible tick found the ceiling saturated, left
\* it where it was and recorded its own time.
C17_Witness ==
    /\ Adjusted
    /\ currentLimit = prevLimit
    /\ tickNow = 2 * Second
    /\ lastAdjustment = tickNow
    /\ lastChange # tickNow

\* C18 as stated: in every reachable state 0 <= count <= currentLimit.
C18_CountWithinCeiling == 0 <= count /\ count <= currentLimit

\* C18 amended: count is never negative; an admission leaves count at most
\* the ceiling it was decided against; count is above the ceiling only
\* after a controller tick has lowered the ceiling below the count already
\* admitted in the window, and it stays there until count or the ceiling
\* changes again.
C18_CountWithinCeilingAtAdmission ==
    [][/\ count' >= 0
       /\ count' > count => (count' = count + 1 /\ count' <= currentLimit
                                /\ currentLimit' = currentLimit)
       /\ count' > currentLimit'
             => \/ count > currentLimit
                \/ /\ pc["adapt"] = "adjust"
                   /\ currentLimit' < currentLimit
                   /\ count' = count]_vars

\* C18 witness: a controller tick has just lowered the ceiling below the
\* count that was admitted in the window against the ceiling before.
C18_Witness ==
    /\ Adjusted
    /\ currentLimit < prevLimit
    /\ count > currentLimit
    /\ count <= prevLimit

\* C19: a ceiling that the controller changed takes effect at once: every
\* Allow is decided by the count and the ceiling as they are when it takes
\* the lock, admitted when count is below the ceiling and rejected when it
\* is at or above it; a controller step never changes count, and count only
\* goes down in a step of the reset loop.
C19_CeilingChangeImmediate ==
    [][/\ \A c \in Callers :
             (pc[c] = "idle" /\ pc'[c] # "idle")
                => /\ pc'[c] = "allow_inc" <=> count < currentLimit
                   /\ pc'[c] = "allow_unlock" <=> count >= currentLimit
                   /\ ret'[c] = (count < currentLimit)
       /\ pc'["adapt"] # pc["adapt"] => count' = count
       /\ count' < count => pc'["reset"] # pc["reset"]]_vars

\* C19 witness: in the first window, exhausted at the configured ceiling, an
\* Allow is admitted against the ceiling that a tick has raised.
C19_Witness ==
    /\ \E c \in Callers : pc[c] = "allow_inc" /\ ret[c] = TRUE
    /\ lastReset = 0
    /\ count = cfg.limit
    /\ cfg.limit > 0
    /\ currentLimit = cfg.limit + cfg.IncreaseStep
    /\ lastChange > 0

\* C20: with a zero or negative cooldown no controller tick is gated; with
\* any cooldown the tick that finds no adjustment recorded is not gated;
\* and a tick that is not gated applies decreaseLimit or increaseLimit to
\* the ceiling.
C20_NonPositiveCooldownNeverGates ==
    [][/\ (pc["adapt"] = "gate" /\ pc'["adapt"] # "gate")
             => /\ cfg.Cooldown <= 0 => pc'["adapt"] = "adjust"
                /\ lastAdjustment = ZeroTime => pc'["adapt"] = "adjust"
       /\ (pc["adapt"] = "adjust" /\ pc'["adapt"] # "adjust")
             => currentLimit' \in {increaseLimit(currentLimit, cfg),
                                   decreaseLimit(currentLimit, cfg)}]_vars

\* C20 witness: with a negative cooldown, the first two ticks have each
\* raised the ceiling by a step.
C20_Witness ==
    /\ cfg.Cooldown < 0
    /\ Adjusted
    /\ prevLimit = cfg.limit + cfg.IncreaseStep
    /\ currentLimit = prevLimit + cfg.IncreaseStep
    /\ lastAdjustment = 2 * Second

\* ----------------------------------------------- the getters as operations
\* The getters a reader calls.
Getters == {"CurrentLimit", "ErrorRate", "AverageLatency"}

\* l.mu.Lock() of a getter.
GetterLock(g, kind) ==
    /\ pc[g] = "idle"
    /\ ops < MaxOps
    /\ ops' = ops + 1
    /\ CanLock(g)
    /\ mu' = g
    /\ read' = [NoRead EXCEPT !.kind = kind]
    /\ pc' = [pc EXCEPT ![g] = "get_read"]
    /\ UNCHANGED harness
    /\ UNCHANGED <<limiter, estimators, stopCh, now, resetC, adaptC, tickNow,
                   latencyValue, errorRate, errArg, ret, calls, granted,
                   disturbed, fresh, entry, lastChange, prevLimit, stopHolder>>

\* The return expression of the getter: l.currentLimit,
\* l.errorEWMA.Value() or time.Duration(l.latencyEWMA.Value()).
GetterRead(g) ==
    /\ pc[g] = "get_read"
    /\ read' = [read EXCEPT
                  !.limit = IF read.kind = "CurrentLimit"
                            THEN CurrentLimit ELSE 0,
                  !.rate = IF read.kind = "ErrorRate" THEN ErrorRate ELSE FZero,
                  !.latency = IF read.kind = "AverageLatency"
                              THEN AverageLatency ELSE 0]
    /\ pc' = [pc EXCEPT ![g] = "get_unlock"]
    /\ UNCHANGED harness
    /\ UNCHANGED <<limiter, estimators, mu, stopCh, now, resetC, adaptC,
                   tickNow, latencyValue, errorRate, errArg, ret, history>>

\* The deferred l.mu.Unlock() of the getter, which returns.
GetterUnlock(g) ==
    /\ pc[g] = "get_unlock"
    /\ mu' = Unlocked(g)
    /\ read' = NoRead
    /\ pc' = [pc EXCEPT ![g] = "idle"]
    /\ UNCHANGED harness
    /\ UNCHANGED <<limiter, estimators, stopCh, now, resetC, adaptC, tickNow,
                   latencyValue, errorRate, errArg, ret, history>>

ReaderStep(g) ==
    \/ \E kind \in Getters : GetterLock(g, kind)
    \/ GetterRead(g)
    \/ GetterUnlock(g)

\* The limiter with a goroutine that calls the getters as well.
LockNext ==
    \/ Next
    \/ \E g \in Readers : ReaderStep(g)

LockSpec == Init /\ [][LockNext]_vars

\* The positions between l.mu.Lock() and l.mu.Unlock(): of Allow, of the
\* reset tick, of the controller tick and of a getter.
CriticalPcs ==
    {"allow_inc", "allow_unlock", "window", "gate", "adjust", "unlock",
     "get_read", "get_unlock"}

\* The goroutines inside their critical section.
Critical == {p \in Procs : pc[p] \in CriticalPcs}

\* The steps of p inside its critical section, up to its Unlock.
HolderStep(p) ==
    \/ p \in Callers /\ (AllowInc(p) \/ AllowUnlock(p))
    \/ p = "reset" /\ ResetWindow
    \/ p = "adapt" /\ (AdaptGate \/ AdaptAdjust \/ AdaptUnlock)
    \/ p \in Readers /\ (GetterRead(p) \/ GetterUnlock(p))

\* The positions where a goroutine waits for l.mu.
Waiting == {p \in {"reset", "adapt"} : pc[p] = "lock"}

\* C21: at most one of Allow, the reset tick, the controller tick and the
\* getters is inside its critical section; the one inside is the holder of
\* l.mu, and l.mu is free when none is inside, so every path, the gated
\* exit of the controller tick included, has released it; the holder can
\* always take its next step (it waits for nothing, an estimator's own lock
\* being held only within one step and never while waiting for l.mu), and a
\* goroutine waiting for a free l.mu can take it: no deadlock.
C21_OneLockNoDeadlock ==
    /\ Cardinality(Critical) <= 1
    /\ \A p \in Procs : p \in Critical <=> mu = p
    /\ Critical = {} <=> mu = NoHolder
    /\ \A p \in Critical : ENABLED HolderStep(p)
    /\ (mu = NoHolder /\ "reset" \in Waiting) => ENABLED ResetLock
    /\ (mu = NoHolder /\ "adapt" \in Waiting) => ENABLED AdaptLock

\* C21 witness: a getter holds l.mu and is reading an estimator that Record
\* has updated, while the reset tick and the controller tick both wait for
\* the lock.
C21_Witness ==
    /\ mu = "get"
    /\ pc["get"] = "get_read"
    /\ read.kind = "ErrorRate"
    /\ errorEWMA.init
    /\ Waiting = {"reset", "adapt"}

\* C22: a window reset sets count to 0 and lastReset to the time it reads,
\* and leaves the ceiling, lastAdjustment and both estimators unchanged; no
\* step of the controller loop changes count, lastReset or an estimator; an
\* estimator changes only in a step of Record, the latency estimator in its
\* first step and the error estimator in its second.
C22_SeparationOfWriters ==
    [][/\ (pc["reset"] = "window" /\ pc'["reset"] # "window")
             => /\ count' = 0
                /\ lastReset' = now
                /\ currentLimit' = currentLimit
                /\ lastAdjustment' = lastAdjustment
                /\ estimators' = estimators
       /\ pc'["adapt"] # pc["adapt"]
             => /\ count' = count
                /\ lastReset' = lastReset
                /\ estimators' = estimators
       /\ latencyEWMA' # latencyEWMA
             => \E r \in Reporters :
                   pc[r] = "idle" /\ pc'[r] = "record_err"
       /\ errorEWMA' # errorEWMA
             => \E r \in Reporters :
                   pc[r] = "record_err" /\ pc'[r] = "idle"]_vars

\* C22 witness: a reset has ended a full window after a Record, the count
\* is 0 again, and a controller tick has recorded its adjustment since.
C22_Witness ==
    /\ pc["reset"] = "select"
    /\ fresh = [after |-> "full", by |-> "none"]
    /\ count = 0
    /\ lastReset > 0
    /\ currentLimit > 0
    /\ latencyEWMA.init /\ errorEWMA.init
    /\ lastAdjustment >= lastReset

====
